---- MODULE Spec2Model ----
(***************************************************************************)
(* Screenshot privacy scanner: the App component's state (src/App.tsx),    *)
(* the ImageViewer's pointer-driven interaction state machine              *)
(* (src/components/ImageViewer.tsx), the ingestion of a detection result   *)
(* (src/unnamed/part_001, services/geminiService) and the export of the    *)
(* redacted image (src/utils/canvasUtils.ts).                              *)
(*                                                                         *)
(* JavaScript numbers are modelled as exact rationals; the surface size    *)
(* and the pointer positions are chosen so that every quotient the code    *)
(* computes is an integer.  Every event handler runs to completion (React  *)
(* flushes the state update and the effect of a discrete event before the  *)
(* next event is dispatched), so one handler is one action.  The update of *)
(* a pointer-move is rendered at once by a root made with ReactDOM.render  *)
(* (Spec, ExportSpec, CaptureSpec) and in a later task by a root made with *)
(* createRoot (ConcurrentSpec); the file that makes the root is not part   *)
(* of the sources.                                                         *)
(***************************************************************************)
EXTENDS Integers, Sequences, FiniteSets, TLC

(* ------------------------------ bounds --------------------------------- *)
\* number of files the user selects in one session
MaxImages == 2
\* number of user inputs in the review screen in one session: pointer-downs,
\* button clicks and text edits (pointer-moves and pointer-ups are not counted)
MaxInputs == 2
\* number of times the user asks for the camera or the screen in one session
MaxStreams == 2

(* --------------------------- values and types -------------------------- *)
\* JavaScript null / undefined
Null == [null |-> TRUE]

Max(a, b) == IF a > b THEN a ELSE b
Min(a, b) == IF a < b THEN a ELSE b

\* the string `risk-${index}-${Date.now()}`
RiskId(index, t) == [kind |-> "risk", index |-> index, t |-> t]
\* the string `custom-${Date.now()}`
CustomId(t) == [kind |-> "custom", index |-> 0, t |-> t]

\* containerRef.current.getBoundingClientRect()
rect == [left |-> 10, top |-> 20, width |-> 200, height |-> 100]

\* clientX / clientY of the pointer events that are delivered
\* two positions on the surface and one outside it, to its left and below it
Pointers ==
  { [clientX |-> 30, clientY |-> 30], [clientX |-> 32, clientY |-> 32],
    [clientX |-> 0, clientY |-> 130] }

\* a risk as the detection service returns it: box_2d is an array
\* [ymin, xmin, ymax, xmax], or is missing / malformed
RawHigh ==
  [type |-> "Email", description |-> "found", riskLevel |-> "HIGH",
   box_2d |-> <<100, 100, 115, 300>>, id |-> [value |-> "risk-7"]]
RawSmall ==
  [type |-> "Name", description |-> "found", riskLevel |-> "MEDIUM",
   box_2d |-> <<120, 110, 125, 115>>]
RawNoBox ==
  [type |-> "Tab", description |-> "found", riskLevel |-> "LOW",
   box_2d |-> <<100, 100, 200>>]
RawInverted ==
  [type |-> "Clock", description |-> "found", riskLevel |-> "SAFE",
   box_2d |-> <<120, 120, 100, 100>>]

\* data.risks of the responses of the detection service
Detections == { <<RawHigh, RawSmall>>, <<RawInverted, RawNoBox>> }

\* the values Date.now() returns: two events can fall into the same
\* millisecond or into different ones
Times == {0, 1}

\* the texts typed into the edit card: the value of the input element
Texts == { [value |-> "ID"], [value |-> ""] }
Types == {"Key"}

(* ------------------------------- state --------------------------------- *)
VARIABLES
  state,        \* App: useState<AppState>
  selectedId,   \* ImageViewer: useState<string | null>
  interaction,  \* ImageViewer: useState<InteractionState>
  readers,      \* number of FileReaders whose onloadend has not fired yet
  inflight,     \* calls of analyzeScreenshot that have not settled yet
  now,          \* the latest value Date.now() has returned
  images,       \* number of image files selected so far
  inputs,       \* number of user inputs in the review screen so far
  last,         \* the event handled last, with the interaction it ended
                \* and, of a run of img.onload, its risks and the calls it made
  isProcessing, \* App: useState(false)
  image,        \* the Image of downloadRedactedImage whose load has not ended
  response,     \* data.risks of the response whose result was installed last
  activeStream, \* App: useState<MediaStream | null>
  live,         \* the streams acquired whose tracks have not ended
  requests,     \* calls of getUserMedia / getDisplayMedia that have not settled
  streams,      \* number of calls of getUserMedia / getDisplayMedia so far
  concurrent,   \* the root renders the update of a continuous event in a
                \* later task (createRoot) instead of at once (ReactDOM.render)
  closure,      \* the AppState of the last render, which its handlers have
                \* closed over, while a later update is not rendered yet
  geometry      \* a box, a surface size and the points computed from them

vars == <<state, selectedId, interaction, readers, inflight, now, images,
          inputs, last, isProcessing, image, response, activeStream, live,
          requests, streams, concurrent, closure, geometry>>

\* the state of the capture
capture == <<activeStream, live, requests, streams>>

\* the state of the renderer
render == <<concurrent, closure>>

\* the AppState the handlers of the last render have closed over
Closure == IF closure = Null THEN state ELSE closure

\* the update of a discrete event (a click, a pointer-down, a pointer-up, a
\* key) is rendered before the next event is dispatched
Flush == closure' = Null /\ UNCHANGED concurrent

\* the update of a continuous event (a pointer-move) is rendered before the
\* listener returns by ReactDOM.render and in a later task by createRoot:
\* until then the handlers are those of the last render
Defer ==
  /\ closure' = IF concurrent /\ state' # Closure THEN Closure ELSE Null
  /\ UNCHANGED concurrent

\* the state of an export
export == <<isProcessing, image>>

Idle == [type |-> "IDLE"]

\* the ImageViewer is rendered by renderReview only
Mounted(s) ==
  s.currentStep = "REVIEW" /\ s.analysisResult # Null /\ s.imageUrl # Null

\* the ImageViewer's own state is kept while it stays mounted and starts
\* from its initial values when it is mounted again
ViewerKeeps(s) ==
  IF Mounted(s)
  THEN UNCHANGED <<selectedId, interaction>>
  ELSE selectedId' = Null /\ interaction' = Idle

\* an event, and an event that ends the interaction in progress: of a
\* drawing it ends the corners are kept, of another interaction the type
Event(op) == [op |-> op, replaced |-> Idle]
Replacing(op) ==
  [op |-> op,
   replaced |-> IF interaction.type = "DRAWING" THEN interaction
                ELSE [type |-> interaction.type]]

\* the values Date.now() can return from now on
Clock == { t \in Times : t >= now }

Init ==
  /\ state = [currentStep |-> "UPLOAD", imageUrl |-> Null,
              imageBase64 |-> Null, analysisResult |-> Null, error |-> Null]
  /\ selectedId = Null
  /\ interaction = Idle
  /\ readers = 0
  /\ inflight = {}
  /\ now = 0
  /\ images = 0
  /\ inputs = 0
  /\ last = [op |-> "init", replaced |-> Idle]
  /\ isProcessing = FALSE
  /\ image = Null
  /\ response = Null
  /\ activeStream = Null
  /\ live = {}
  /\ requests = {}
  /\ streams = 0
  /\ concurrent = FALSE
  /\ closure = Null
  /\ geometry = Null

(* --------------------- ingestion of a detection result ----------------- *)
\* Array.isArray of a property of the parsed response: the schema makes the
\* property an array when it is present, and it is not required
IsArray(risk, property) == property \in DOMAIN risk

\* a post-processing that keeps the id of the response when it has one and
\* also redacts the risks of medium severity
IngestRiskTrusting(risk, index, t) ==
  [id |-> IF "id" \in DOMAIN risk
          THEN [kind |-> "risk", index |-> index, t |-> t, given |-> risk.id]
          ELSE RiskId(index, t),
   type |-> risk.type,
   description |-> risk.description,
   riskLevel |-> risk.riskLevel,
   box_2d |-> IF IsArray(risk, "box_2d") /\ Len(risk.box_2d) = 4
              THEN [ymin |-> risk.box_2d[1], xmin |-> risk.box_2d[2],
                    ymax |-> risk.box_2d[3], xmax |-> risk.box_2d[4]]
              ELSE Null,
   isRedacted |-> (risk.riskLevel \in {"HIGH", "MEDIUM"}),
   isHidden |-> FALSE,
   customText |-> Null]

\* an ingestion that takes the first four elements of a longer array
IngestRiskFirstFour(risk, index, t) ==
  [id |-> RiskId(index, t),
   type |-> risk.type,
   description |-> risk.description,
   riskLevel |-> risk.riskLevel,
   box_2d |-> IF IsArray(risk, "box_2d") /\ Len(risk.box_2d) >= 4
              THEN [ymin |-> risk.box_2d[1], xmin |-> risk.box_2d[2],
                    ymax |-> risk.box_2d[3], xmax |-> risk.box_2d[4]]
              ELSE Null,
   isRedacted |-> (risk.riskLevel = "HIGH"),
   isHidden |-> FALSE,
   customText |-> Null]

\* geminiService: the post-processing of data.risks
IngestRisk(risk, index, t) ==
  [id |-> RiskId(index, t),
   type |-> risk.type,
   description |-> risk.description,
   riskLevel |-> risk.riskLevel,
   box_2d |-> IF IsArray(risk, "box_2d") /\ Len(risk.box_2d) = 4
              THEN [ymin |-> risk.box_2d[1], xmin |-> risk.box_2d[2],
                    ymax |-> risk.box_2d[3], xmax |-> risk.box_2d[4]]
              ELSE Null,
   isRedacted |-> (risk.riskLevel = "HIGH"),
   isHidden |-> FALSE,
   customText |-> Null]

\* analyzeScreenshot's return value for the response data
AnalyzeResult(data, t) ==
  [summary |-> "Analysis complete.",
   risks |-> [i \in 1..Len(data) |-> IngestRisk(data[i], i - 1, t)]]

(* ------------------------------ App.tsx -------------------------------- *)
\* the region store: state.analysisResult.risks
Risks(s) == IF s.analysisResult = Null THEN <<>> ELSE s.analysisResult.risks

\* a rejection of the file that also drops the result of the analysis
InvalidFileClearing(s) ==
  [s EXCEPT !.error = [message |-> "Please upload a valid image file."],
            !.analysisResult = Null]

\* handleFileUpload's setState for a file that is not an image
InvalidFile(s) ==
  [s EXCEPT !.error = [message |-> "Please upload a valid image file."]]

\* handleFileUpload: the file input is rendered by renderUpload only
HandleFileUpload(isImage) ==
  /\ state.currentStep = "UPLOAD"
  /\ IF isImage
     THEN /\ images < MaxImages
          /\ images' = images + 1
          /\ readers' = readers + 1
          /\ UNCHANGED state
     ELSE /\ state' = InvalidFile(state)
          /\ UNCHANGED <<readers, images>>
  /\ last' = [op |-> "fileUpload", replaced |-> Idle, isImage |-> isImage]
  /\ UNCHANGED <<selectedId, interaction, inflight, now, inputs>>
  /\ UNCHANGED <<export, response, capture, render, geometry>>

\* triggerAnalysis up to its await
TriggerAnalysis(s) == [s EXCEPT !.currentStep = "ANALYZING", !.error = Null]

\* the data URL a FileReader delivers: the images are numbered in the order
\* in which they are read
LoadedImage == images - readers + 1

\* reader.onloadend, including the call of triggerAnalysis
ReaderLoadEnd ==
  /\ readers > 0
  /\ readers' = readers - 1
  /\ state' = TriggerAnalysis(
                [currentStep |-> "UPLOAD", imageUrl |-> [img |-> LoadedImage],
                 imageBase64 |-> [img |-> LoadedImage],
                 analysisResult |-> Null, error |-> Null])
  /\ inflight' = inflight \cup {LoadedImage}
  /\ ViewerKeeps(state')
  /\ last' = Event("loadEnd")
  /\ UNCHANGED <<now, images, inputs>>
  /\ UNCHANGED <<export, response, capture, render, geometry>>

\* a seed that keeps the regions already in the store
InstallResultMerged(s, result) ==
  [s EXCEPT !.currentStep = "REVIEW",
            !.analysisResult =
               [result EXCEPT !.risks = Risks(s) \o result.risks]]

\* the state after a result has been received
InstallResult(s, result) ==
  [s EXCEPT !.currentStep = "REVIEW", !.analysisResult = result]

\* triggerAnalysis after its await: analyzeScreenshot resolved
AnalysisResolve(img, data, t) ==
  /\ img \in inflight
  /\ inflight' = inflight \ {img}
  /\ now' = t
  /\ state' = InstallResult(state, AnalyzeResult(data, t))
  /\ ViewerKeeps(state')
  /\ response' = data
  /\ last' = Event("analysisResolve")
  /\ UNCHANGED <<readers, images, inputs>>
  /\ UNCHANGED <<export, capture, render, geometry>>

\* triggerAnalysis after its await: analyzeScreenshot threw
AnalysisReject(img) ==
  /\ img \in inflight
  /\ inflight' = inflight \ {img}
  /\ state' = [state EXCEPT
                 !.currentStep = "UPLOAD",
                 !.error = [message |-> "Failed to analyze image. Please try again."]]
  /\ ViewerKeeps(state')
  /\ last' = Event("analysisReject")
  /\ UNCHANGED <<readers, now, images, inputs>>
  /\ UNCHANGED <<export, response, capture, render, geometry>>

WithRisks(s, risks) ==
  [s EXCEPT !.analysisResult = [s.analysisResult EXCEPT !.risks = risks]]

\* the updater of handleToggleRedaction and handleToggleVisibility: the
\* risks it installs were computed before setState was called
SetRisks(prev, risks) ==
  IF prev.analysisResult = Null THEN prev ELSE WithRisks(prev, risks)

\* handleToggleRedaction: the state with updatedRisks, computed from the
\* state s of the render
ToggleRedaction(s, id) ==
  IF s.analysisResult = Null THEN s
  ELSE WithRisks(s, [i \in 1..Len(Risks(s)) |->
         LET r == Risks(s)[i]
         IN  IF r.id = id THEN [r EXCEPT !.isRedacted = ~r.isRedacted] ELSE r])

\* handleToggleVisibility: the state with updatedRisks, computed from the
\* state s of the render
ToggleVisibility(s, id) ==
  IF s.analysisResult = Null THEN s
  ELSE WithRisks(s, [i \in 1..Len(Risks(s)) |->
         LET r == Risks(s)[i]
         IN  IF r.id = id THEN [r EXCEPT !.isHidden = ~r.isHidden] ELSE r])

\* handleAddRisk's setState
AddRisk(s, box, t) ==
  LET newRisk == [id |-> CustomId(t),
                  type |-> "Custom Risk",
                  description |-> "Manual redaction",
                  riskLevel |-> "HIGH",
                  box_2d |-> box,
                  isHidden |-> FALSE,
                  isRedacted |-> TRUE,
                  customText |-> Null]
  IN  IF s.analysisResult = Null THEN s
      ELSE WithRisks(s, Append(Risks(s), newRisk))

\* an update that inserts the region when its id is not in the store
UpdateRiskUpsert(s, id, box) ==
  LET fresh == [id |-> id, type |-> "Custom Risk",
                description |-> "Manual redaction", riskLevel |-> "HIGH",
                box_2d |-> box, isHidden |-> FALSE, isRedacted |-> TRUE,
                customText |-> Null]
  IN  IF s.analysisResult = Null THEN s
      ELSE IF \E i \in 1..Len(Risks(s)) : Risks(s)[i].id = id
           THEN WithRisks(s, [i \in 1..Len(Risks(s)) |->
                  IF Risks(s)[i].id = id
                  THEN [Risks(s)[i] EXCEPT !.box_2d = box]
                  ELSE Risks(s)[i]])
           ELSE WithRisks(s, Append(Risks(s), fresh))

\* handleUpdateRisk's setState
UpdateRisk(s, id, box) ==
  IF s.analysisResult = Null THEN s
  ELSE WithRisks(s, [i \in 1..Len(Risks(s)) |->
         LET r == Risks(s)[i]
         IN  IF r.id = id THEN [r EXCEPT !.box_2d = box] ELSE r])

\* handleUpdateRiskText's setState
UpdateRiskText(s, id, text) ==
  IF s.analysisResult = Null THEN s
  ELSE WithRisks(s, [i \in 1..Len(Risks(s)) |->
         LET r == Risks(s)[i]
         IN  IF r.id = id THEN [r EXCEPT !.customText = text] ELSE r])

\* handleUpdateRiskDetails's setState
UpdateRiskDetails(s, id, type, description) ==
  IF s.analysisResult = Null THEN s
  ELSE WithRisks(s, [i \in 1..Len(Risks(s)) |->
         LET r == Risks(s)[i]
         IN  IF r.id = id THEN [r EXCEPT !.type = type, !.description = description] ELSE r])

\* handleDeleteRisk's setState
DeleteRisk(s, id) ==
  LET keep(r) == r.id # id
  IN  IF s.analysisResult = Null THEN s
      ELSE WithRisks(s, SelectSeq(Risks(s), keep))

\* activeStream.getTracks().forEach(track => track.stop()), when a stream
\* is held: the streams that are live afterwards
StopTracks(tracks, stream) ==
  IF stream # Null THEN tracks \ {stream} ELSE tracks

\* handleReset
HandleReset ==
  /\ Mounted(state)
  /\ live' = StopTracks(live, activeStream)
  /\ activeStream' = Null
  /\ state' = [currentStep |-> "UPLOAD", imageUrl |-> Null,
               imageBase64 |-> Null, analysisResult |-> Null, error |-> Null]
  /\ ViewerKeeps(state')
  /\ last' = Event("reset")
  /\ UNCHANGED <<readers, inflight, now, images, inputs>>
  /\ UNCHANGED <<export, response, requests, streams, render, geometry>>

(* ------------------------ App.tsx: the capture -------------------------- *)
\* handleStartCamera and handleStartScreen up to their await: the buttons are
\* rendered by renderUpload only; the request keeps the activeStream that the
\* handleStopCapture of this render has closed over
HandleStartCapture(kind) ==
  /\ state.currentStep = "UPLOAD"
  /\ streams < MaxStreams
  /\ streams' = streams + 1
  /\ requests' = requests \cup
       { [kind |-> kind, id |-> streams + 1, activeStream |-> activeStream] }
  /\ last' = Event("startCapture")
  /\ UNCHANGED <<state, selectedId, interaction, readers, inflight, now,
                 images, inputs, export, response, activeStream, live,
                 render, geometry>>

\* the MediaStream a request resolves to; the track of a screen stream has
\* the onended handler of handleStartScreen
MediaStream(request) == request

\* the state after the stream has been acquired
StartCapture(s) == [s EXCEPT !.currentStep = "CAPTURE", !.error = Null]

\* handleStartCamera and handleStartScreen after their await: the promise
\* of getUserMedia / getDisplayMedia resolved
MediaResolve(request) ==
  /\ request \in requests
  /\ requests' = requests \ {request}
  /\ live' = live \cup {MediaStream(request)}
  /\ activeStream' = MediaStream(request)
  /\ state' = StartCapture(state)
  /\ ViewerKeeps(state')
  /\ last' = [op |-> "mediaResolve", replaced |-> Idle, kind |-> request.kind]
  /\ UNCHANGED <<readers, inflight, now, images, inputs, export, response,
                 streams, render, geometry>>

\* the catch of handleStartCamera records an error
CameraDenied(s) ==
  [s EXCEPT !.error =
     [message |-> "Could not access camera. Please check permissions."]]

\* the catch of handleStartScreen logs to the console only
ScreenDenied(s) == s

\* handleStartCamera and handleStartScreen after their await: the promise
\* was rejected (the permission was refused, or the picker was dismissed)
MediaReject(request) ==
  /\ request \in requests
  /\ requests' = requests \ {request}
  /\ state' = IF request.kind = "camera" THEN CameraDenied(state)
              ELSE ScreenDenied(state)
  /\ last' = [op |-> "mediaReject", replaced |-> Idle, kind |-> request.kind]
  /\ UNCHANGED <<selectedId, interaction, readers, inflight, now, images,
                 inputs, export, response, activeStream, live, streams,
                 render, geometry>>

\* handleStopCapture as the render in which held was the activeStream has
\* created it
StopCapture(held, tracks) ==
  /\ live' = StopTracks(tracks, held)
  /\ activeStream' = IF held # Null THEN Null ELSE activeStream
  /\ state' = [state EXCEPT !.currentStep = "UPLOAD"]
  /\ ViewerKeeps(state')

\* the Cancel button of renderCapture
HandleStopCapture ==
  /\ state.currentStep = "CAPTURE"
  /\ StopCapture(activeStream, live)
  /\ last' = Event("stopCapture")
  /\ UNCHANGED <<readers, inflight, now, images, inputs, export, response,
                 requests, streams, render, geometry>>

\* the track of a stream ends: the user stops the share in the browser's
\* own controls, or the device is removed.  The onended handler of a screen
\* stream calls the handleStopCapture of the render in which the button was
\* clicked; a camera stream has no handler
TrackEnded(stream) ==
  /\ stream \in live
  /\ IF stream.kind = "screen"
     THEN StopCapture(stream.activeStream, live \ {stream})
     ELSE /\ live' = live \ {stream}
          /\ UNCHANGED <<state, activeStream, selectedId, interaction>>
  /\ last' = [op |-> "trackEnded", replaced |-> Idle, kind |-> stream.kind]
  /\ UNCHANGED <<readers, inflight, now, images, inputs, export, response,
                 requests, streams, render, geometry>>

\* the data URL of a snapshot: the snapshots are numbered after the files,
\* by the stream they are taken from
Snapshot(stream) ==
  MaxImages + (IF stream = Null THEN 0 ELSE stream.id)

\* handleCaptureImage's setState
CaptureImage(s, img) ==
  [s EXCEPT !.imageUrl = [img |-> img], !.imageBase64 = [img |-> img],
            !.analysisResult = Null, !.error = Null]

\* the snapshot button of renderCapture: handleCaptureImage, including the
\* call of triggerAnalysis; ctx tells whether getContext returned a context
HandleCaptureImage(ctx) ==
  /\ state.currentStep = "CAPTURE"
  /\ IF ctx
     THEN /\ live' = StopTracks(live, activeStream)
          /\ activeStream' = Null
          /\ state' = TriggerAnalysis(
                        CaptureImage(state, Snapshot(activeStream)))
          /\ inflight' = inflight \cup {Snapshot(activeStream)}
     ELSE UNCHANGED <<live, activeStream, state, inflight>>
  /\ ViewerKeeps(state')
  /\ last' = [op |-> "captureImage", replaced |-> Idle, ctx |-> ctx]
  /\ UNCHANGED <<readers, now, images, inputs, export, response, requests,
                 streams, render, geometry>>

(* --------------------------- AnalysisSidebar.tsx ----------------------- *)
\* the risks the sidebar lists as detected
visibleRisks(risks) ==
  LET shown(r) == ~r.isHidden IN SelectSeq(risks, shown)

\* the risks the sidebar lists as ignored
hiddenRisks(risks) ==
  LET ignored(r) == r.isHidden IN SelectSeq(risks, ignored)

(* --------------------- ImageViewer.tsx: what is drawn ------------------ *)
\* risks.map in the render: a risk without a box or a hidden one draws nothing
Rendered(r) == r.box_2d # Null /\ ~r.isHidden

\* getBoxCoordinates, in thousandths of the surface instead of percent;
\* CSS drops a negative width or height, which leaves an empty box
BoxCoordinates(box) ==
  [top |-> box.ymin, left |-> box.xmin,
   width |-> Max(0, box.xmax - box.xmin),
   height |-> Max(0, box.ymax - box.ymin)]

\* the position of a pointer event on the surface, not clamped
SurfaceX(e) == ((e.clientX - rect.left) * 1000) \div rect.width
SurfaceY(e) == ((e.clientY - rect.top) * 1000) \div rect.height

\* the container clips its content (overflow-hidden): a pointer-down is
\* received only inside it
InContainer(e) ==
  /\ SurfaceX(e) >= 0 /\ SurfaceX(e) <= 1000
  /\ SurfaceY(e) >= 0 /\ SurfaceY(e) <= 1000

Covers(r, e) ==
  /\ Rendered(r)
  /\ LET c == BoxCoordinates(r.box_2d)
     IN  /\ c.left <= SurfaceX(e) /\ SurfaceX(e) <= c.left + c.width
         /\ c.top <= SurfaceY(e) /\ SurfaceY(e) <= c.top + c.height

\* z-20 for a redacted overlay, z-10 otherwise; later siblings are above
ZIndex(r) == IF r.isRedacted THEN 20 ELSE 10

\* the overlay that receives a pointer-down at e
Topmost(risks, i, e) ==
  /\ i \in 1..Len(risks)
  /\ Covers(risks[i], e)
  /\ \A j \in 1..Len(risks) :
       (j # i /\ Covers(risks[j], e)) =>
         \/ ZIndex(risks[j]) < ZIndex(risks[i])
         \/ ZIndex(risks[j]) = ZIndex(risks[i]) /\ j < i

(* ------------------ ImageViewer.tsx: the event handlers ---------------- *)
\* getNormalizedPoint
getNormalizedPoint(e) ==
  LET x == e.clientX - rect.left
      y == e.clientY - rect.top
  IN  [x |-> Max(0, Min(1000, (x * 1000) \div rect.width)),
       y |-> Max(0, Min(1000, (y * 1000) \div rect.height))]

\* handlePointerDown: a pointer-down that no overlay has stopped
HandlePointerDown(e) ==
  /\ Mounted(state)
  /\ inputs < MaxInputs
  /\ InContainer(e)
  /\ \A i \in 1..Len(Risks(state)) : ~Covers(Risks(state)[i], e)
  /\ LET p == getNormalizedPoint(e)
     IN  /\ selectedId' = Null
         /\ interaction' = [type |-> "DRAWING", startX |-> p.x, startY |-> p.y,
                            currentX |-> p.x, currentY |-> p.y]
  /\ inputs' = inputs + 1
  /\ last' = Replacing("pointerDown")
  /\ UNCHANGED <<state, readers, inflight, now, images>>
  /\ Flush
  /\ UNCHANGED <<export, response, capture, geometry>>

\* handleBoxDown: a pointer-down on the body of an overlay
HandleBoxDown(e, i) ==
  /\ Mounted(state)
  /\ inputs < MaxInputs
  /\ InContainer(e)
  /\ Topmost(Risks(state), i, e)
  /\ LET risk == Risks(state)[i]
     IN  /\ selectedId' = risk.id
         /\ interaction' = [type |-> "MOVING", id |-> risk.id,
                            startX |-> e.clientX, startY |-> e.clientY,
                            initialBox |-> risk.box_2d]
  /\ inputs' = inputs + 1
  /\ last' = Replacing("boxDown")
  /\ UNCHANGED <<state, readers, inflight, now, images>>
  /\ Flush
  /\ UNCHANGED <<export, response, capture, geometry>>

Handles == {"tl", "tr", "bl", "br"}

\* String.prototype.includes for the one-letter edge names
Includes(handle, c) ==
  CASE c = "t" -> handle \in {"tl", "tr"}
    [] c = "b" -> handle \in {"bl", "br"}
    [] c = "l" -> handle \in {"tl", "bl"}
    [] c = "r" -> handle \in {"tr", "br"}

\* the pointer position at the centre of a resize handle: a corner of the
\* drawn overlay
HandlePosition(box, handle) ==
  LET c == BoxCoordinates(box)
      sx == IF Includes(handle, "l") THEN c.left ELSE c.left + c.width
      sy == IF Includes(handle, "t") THEN c.top ELSE c.top + c.height
  IN  [clientX |-> rect.left + (sx * rect.width) \div 1000,
       clientY |-> rect.top + (sy * rect.height) \div 1000]

\* handleHandleDown: the handles are drawn for the selected overlay only
HandleHandleDown(i, handle) ==
  /\ Mounted(state)
  /\ inputs < MaxInputs
  /\ i \in 1..Len(Risks(state))
  /\ LET risk == Risks(state)[i]
     IN  /\ Rendered(risk)
         /\ selectedId = risk.id
         /\ LET e == HandlePosition(risk.box_2d, handle)
            IN  /\ InContainer(e)
                /\ Topmost(Risks(state), i, e)
                /\ interaction' = [type |-> "RESIZING", id |-> risk.id,
                                   handle |-> handle,
                                   startX |-> e.clientX, startY |-> e.clientY,
                                   initialBox |-> risk.box_2d]
  /\ inputs' = inputs + 1
  /\ last' = Replacing("handleDown")
  /\ UNCHANGED <<state, selectedId, readers, inflight, now, images>>
  /\ Flush
  /\ UNCHANGED <<export, response, capture, geometry>>

\* a move that keeps every edge on the surface
MovedBoxClamped(inter, e) ==
  LET deltaX == ((e.clientX - inter.startX) * 1000) \div rect.width
      deltaY == ((e.clientY - inter.startY) * 1000) \div rect.height
      clamp(v) == Max(0, Min(1000, v))
  IN  [xmin |-> clamp(inter.initialBox.xmin + deltaX),
       xmax |-> clamp(inter.initialBox.xmax + deltaX),
       ymin |-> clamp(inter.initialBox.ymin + deltaY),
       ymax |-> clamp(inter.initialBox.ymax + deltaY)]

\* a move that adds the distance from the pointer-down to the box the
\* region has now instead of to the snapshot
MovedBoxFromCurrent(inter, e) ==
  LET deltaX == ((e.clientX - inter.startX) * 1000) \div rect.width
      deltaY == ((e.clientY - inter.startY) * 1000) \div rect.height
      held == { k \in 1..Len(Risks(state)) : Risks(state)[k].id = inter.id }
      box == IF held = {} THEN inter.initialBox
             ELSE Risks(state)[CHOOSE k \in held : TRUE].box_2d
  IN  [xmin |-> box.xmin + deltaX, xmax |-> box.xmax + deltaX,
       ymin |-> box.ymin + deltaY, ymax |-> box.ymax + deltaY]

\* handlePointerMove, MOVING branch: the box handed to onUpdateRisk
MovedBox(inter, e) ==
  LET deltaX == ((e.clientX - inter.startX) * 1000) \div rect.width
      deltaY == ((e.clientY - inter.startY) * 1000) \div rect.height
  IN  [xmin |-> inter.initialBox.xmin + deltaX,
       xmax |-> inter.initialBox.xmax + deltaX,
       ymin |-> inter.initialBox.ymin + deltaY,
       ymax |-> inter.initialBox.ymax + deltaY]

\* the edges after the deltas, before any validation
ResizedEdges(inter, e) ==
  LET deltaX == ((e.clientX - inter.startX) * 1000) \div rect.width
      deltaY == ((e.clientY - inter.startY) * 1000) \div rect.height
      b == inter.initialBox
  IN  [xmin |-> IF Includes(inter.handle, "l") THEN b.xmin + deltaX ELSE b.xmin,
       xmax |-> IF Includes(inter.handle, "r") THEN b.xmax + deltaX ELSE b.xmax,
       ymin |-> IF Includes(inter.handle, "t") THEN b.ymin + deltaY ELSE b.ymin,
       ymax |-> IF Includes(inter.handle, "b") THEN b.ymax + deltaY ELSE b.ymax]

\* a resize that swaps the edges of an inverted box
ResizedBoxSwapped(inter, e) ==
  LET b == ResizedEdges(inter, e)
      xmin == Min(b.xmin, b.xmax)
      ymin == Min(b.ymin, b.ymax)
  IN  [xmin |-> xmin, xmax |-> Max(Max(b.xmin, b.xmax), xmin + 10),
       ymin |-> ymin, ymax |-> Max(Max(b.ymin, b.ymax), ymin + 10)]

\* a resize without the validation of the dimensions
ResizedBoxUnclamped(inter, e) == ResizedEdges(inter, e)

\* handlePointerMove, RESIZING branch: the box handed to onUpdateRisk
ResizedBox(inter, e) ==
  LET deltaX == ((e.clientX - inter.startX) * 1000) \div rect.width
      deltaY == ((e.clientY - inter.startY) * 1000) \div rect.height
      b == inter.initialBox
      xmin == IF Includes(inter.handle, "l") THEN b.xmin + deltaX ELSE b.xmin
      xmax0 == IF Includes(inter.handle, "r") THEN b.xmax + deltaX ELSE b.xmax
      ymin == IF Includes(inter.handle, "t") THEN b.ymin + deltaY ELSE b.ymin
      ymax0 == IF Includes(inter.handle, "b") THEN b.ymax + deltaY ELSE b.ymax
      xmax == IF xmax0 < xmin + 10 THEN xmin + 10 ELSE xmax0
      ymax == IF ymax0 < ymin + 10 THEN ymin + 10 ELSE ymax0
  IN  [xmin |-> xmin, xmax |-> xmax, ymin |-> ymin, ymax |-> ymax]

\* handlePointerMove: the window listener exists while not IDLE
HandlePointerMove(e) ==
  /\ interaction.type # "IDLE"
  /\ CASE interaction.type = "DRAWING" ->
            LET p == getNormalizedPoint(e)
            IN  /\ interaction' = [interaction EXCEPT !.currentX = p.x,
                                                      !.currentY = p.y]
                /\ UNCHANGED state
       [] interaction.type = "MOVING" ->
            /\ state' = UpdateRisk(state, interaction.id,
                                   MovedBox(interaction, e))
            /\ UNCHANGED interaction
       [] interaction.type = "RESIZING" ->
            /\ state' = UpdateRisk(state, interaction.id,
                                   ResizedBox(interaction, e))
            /\ UNCHANGED interaction
  /\ Defer
  /\ last' = [op |-> "pointerMove", replaced |-> Idle, e |-> e]
  /\ UNCHANGED <<selectedId, readers, inflight, now, images, inputs>>
  /\ UNCHANGED <<export, response, capture, geometry>>

\* a box that takes the start point as its minimum corner
DrawnBoxUnordered(inter) ==
  [xmin |-> inter.startX, xmax |-> inter.currentX,
   ymin |-> inter.startY, ymax |-> inter.currentY]

\* handlePointerUp, DRAWING branch: the box built from the two corners
DrawnBox(inter) ==
  [xmin |-> Min(inter.startX, inter.currentX),
   xmax |-> Max(inter.startX, inter.currentX),
   ymin |-> Min(inter.startY, inter.currentY),
   ymax |-> Max(inter.startY, inter.currentY)]

\* a size test that accepts a dimension of exactly 10
HasSizeInclusive(box) == box.xmax - box.xmin >= 10 /\ box.ymax - box.ymin >= 10

\* handlePointerUp, DRAWING branch: "create the box if it has size"
HasSize(box) == box.xmax - box.xmin > 10 /\ box.ymax - box.ymin > 10

\* a pointer-up that puts a moved or resized box back where it was
HandlePointerUpReverting(t) ==
  /\ interaction.type # "IDLE"
  /\ IF interaction.type = "DRAWING"
     THEN IF HasSize(DrawnBox(interaction))
          THEN state' = AddRisk(state, DrawnBox(interaction), t) /\ now' = t
          ELSE UNCHANGED <<state, now>> /\ t = now
     ELSE /\ state' = UpdateRisk(state, interaction.id, interaction.initialBox)
          /\ UNCHANGED now /\ t = now
  /\ interaction' = Idle
  /\ last' = Replacing("pointerUp")
  /\ UNCHANGED <<selectedId, readers, inflight, images, inputs>>
  /\ Flush
  /\ UNCHANGED <<export, response, capture, geometry>>

\* handlePointerUp
HandlePointerUp(t) ==
  /\ interaction.type # "IDLE"
  /\ IF interaction.type = "DRAWING" /\ HasSize(DrawnBox(interaction))
     THEN state' = AddRisk(state, DrawnBox(interaction), t) /\ now' = t
     ELSE UNCHANGED <<state, now>> /\ t = now
  /\ interaction' = Idle
  /\ last' = Replacing("pointerUp")
  /\ UNCHANGED <<selectedId, readers, inflight, images, inputs>>
  /\ Flush
  /\ UNCHANGED <<export, response, capture, geometry>>

\* the buttons of the sidebar and of the edit card: onToggleRedaction
HandleToggleRedaction(i) ==
  /\ Mounted(state)
  /\ i \in 1..Len(Risks(Closure))
  /\ ~Risks(Closure)[i].isHidden
  /\ state' = SetRisks(state, Risks(ToggleRedaction(Closure,
                                                    Risks(Closure)[i].id)))
  /\ Flush
  /\ inputs < MaxInputs
  /\ inputs' = inputs + 1
  /\ last' = [op |-> "toggleRedaction", replaced |-> Idle,
              id |-> Risks(Closure)[i].id]
  /\ UNCHANGED <<selectedId, interaction, readers, inflight, now, images>>
  /\ UNCHANGED <<export, response, capture, geometry>>

\* the sidebar's "Ignore this risk" and "Restore": onToggleVisibility
HandleToggleVisibility(i) ==
  /\ Mounted(state)
  /\ i \in 1..Len(Risks(Closure))
  /\ state' = SetRisks(state, Risks(ToggleVisibility(Closure,
                                                     Risks(Closure)[i].id)))
  /\ Flush
  /\ inputs < MaxInputs
  /\ inputs' = inputs + 1
  /\ last' = [op |-> "toggleVisibility", replaced |-> Idle,
              id |-> Risks(Closure)[i].id]
  /\ UNCHANGED <<selectedId, interaction, readers, inflight, now, images>>
  /\ UNCHANGED <<export, response, capture, geometry>>

\* the edit card is drawn for the selected overlay
EditCard(i) ==
  /\ Mounted(state)
  /\ i \in 1..Len(Risks(state))
  /\ Rendered(Risks(state)[i])
  /\ selectedId = Risks(state)[i].id

\* the edit card's overlay-label input: onUpdateRiskText
HandleUpdateRiskText(i, text) ==
  /\ EditCard(i)
  /\ Risks(state)[i].isRedacted
  /\ state' = UpdateRiskText(state, Risks(state)[i].id, text)
  /\ inputs < MaxInputs
  /\ inputs' = inputs + 1
  /\ last' = Event("updateRiskText")
  /\ UNCHANGED <<selectedId, interaction, readers, inflight, now, images>>
  /\ Flush
  /\ UNCHANGED <<export, response, capture, geometry>>

\* the edit card's type input: onUpdateRiskDetails
HandleUpdateRiskDetails(i, type) ==
  /\ EditCard(i)
  /\ state' = UpdateRiskDetails(state, Risks(state)[i].id, type,
                                Risks(state)[i].description)
  /\ inputs < MaxInputs
  /\ inputs' = inputs + 1
  /\ last' = Event("updateRiskDetails")
  /\ UNCHANGED <<selectedId, interaction, readers, inflight, now, images>>
  /\ Flush
  /\ UNCHANGED <<export, response, capture, geometry>>

\* the edit card's delete button: onDeleteRisk
HandleDeleteRisk(i) ==
  /\ EditCard(i)
  /\ state' = DeleteRisk(state, Risks(state)[i].id)
  /\ inputs < MaxInputs
  /\ inputs' = inputs + 1
  /\ last' = Event("deleteRisk")
  /\ UNCHANGED <<selectedId, interaction, readers, inflight, now, images>>
  /\ Flush
  /\ UNCHANGED <<export, response, capture, geometry>>

(* ------------------- canvasUtils.ts and handleDownload ----------------- *)
\* the Button of the export is disabled while it is loading
ButtonDisabled(isLoading) == isLoading

\* useState<ImageFilters>: the filter panel is not used in this model
imageFilters ==
  [grayscale |-> 0, sepia |-> 0, brightness |-> 100, contrast |-> 100,
   blur |-> 0]

\* img.naturalWidth and img.naturalHeight of the source image, in pixels
naturalSize == [width |-> 1000, height |-> 500]

\* the CSS filter string: the list of its filter functions
filterString(filters) ==
  << [fn |-> "grayscale", arg |-> filters.grayscale, unit |-> "%"],
     [fn |-> "sepia", arg |-> filters.sepia, unit |-> "%"],
     [fn |-> "brightness", arg |-> filters.brightness, unit |-> "%"],
     [fn |-> "contrast", arg |-> filters.contrast, unit |-> "%"],
     [fn |-> "blur", arg |-> filters.blur, unit |-> "px"] >>

\* the CSS filter 'none': no filter function
FilterNone == << >>

\* the truth value JavaScript gives a string that may be missing
Truthy(text) == text # Null /\ text.value # ""

\* a forEach callback that leaves out the regions the editor hides
PaintRiskVisible(risk, canvas) ==
  IF risk.isRedacted /\ risk.box_2d # Null /\ ~risk.isHidden
  THEN << [call |-> "fillRect", fillStyle |-> "#000000",
           x |-> risk.box_2d.xmin * canvas.width,
           y |-> risk.box_2d.ymin * canvas.height,
           w |-> (risk.box_2d.xmax - risk.box_2d.xmin) * canvas.width,
           h |-> (risk.box_2d.ymax - risk.box_2d.ymin) * canvas.height] >>
  ELSE << >>

\* a callback whose label is half as high as the fill, whatever the fill
PaintRiskFontHalf(risk, canvas) ==
  IF risk.isRedacted /\ risk.box_2d # Null
  THEN LET x == risk.box_2d.xmin * canvas.width
           y == risk.box_2d.ymin * canvas.height
           w == (risk.box_2d.xmax - risk.box_2d.xmin) * canvas.width
           h == (risk.box_2d.ymax - risk.box_2d.ymin) * canvas.height
       IN  << [call |-> "fillRect", fillStyle |-> "#000000",
               x |-> x, y |-> y, w |-> w, h |-> h] >>
           \o (IF Truthy(risk.customText)
               THEN << [call |-> "fillText", fillStyle |-> "#ffffff",
                        font |-> h \div 2, text |-> risk.customText.value,
                        x |-> x + w \div 2, y |-> y + h \div 2,
                        maxWidth |-> w] >>
               ELSE << >>)
  ELSE << >>

\* the callback of risks.forEach: the calls on the context for one risk;
\* x, y, w, h and the font size are in thousandths of a pixel
PaintRisk(risk, canvas) ==
  IF risk.isRedacted /\ risk.box_2d # Null
  THEN LET x == risk.box_2d.xmin * canvas.width
           y == risk.box_2d.ymin * canvas.height
           w == (risk.box_2d.xmax - risk.box_2d.xmin) * canvas.width
           h == (risk.box_2d.ymax - risk.box_2d.ymin) * canvas.height
           fontSize == Max(10000, Min(h \div 2, 24000))
       IN  << [call |-> "fillRect", fillStyle |-> "#000000",
               x |-> x, y |-> y, w |-> w, h |-> h] >>
           \o (IF Truthy(risk.customText)
               THEN << [call |-> "fillText", fillStyle |-> "#ffffff",
                        font |-> fontSize, text |-> risk.customText.value,
                        x |-> x + w \div 2, y |-> y + h \div 2,
                        maxWidth |-> w] >>
               ELSE << >>)
  ELSE << >>

\* a loop that passes over the risks the viewer does not render
RECURSIVE ForEachRiskShown(_, _)
ForEachRiskShown(risks, canvas) ==
  IF risks = << >> THEN << >>
  ELSE (IF Head(risks).isHidden THEN << >>
        ELSE PaintRisk(Head(risks), canvas))
       \o ForEachRiskShown(Tail(risks), canvas)

\* risks.forEach: the callback on every risk, in the order of the array
RECURSIVE ForEachRisk(_, _)
ForEachRisk(risks, canvas) ==
  IF risks = << >> THEN << >>
  ELSE PaintRisk(Head(risks), canvas) \o ForEachRisk(Tail(risks), canvas)

\* an onload that resets the filter after the redactions are drawn
ImgOnLoadFilterLate(img, risks, filters, ctx) ==
  LET canvas == [width |-> img.naturalWidth, height |-> img.naturalHeight]
  IN  << [call |-> "getContext", returned |-> ctx],
         [call |-> "filter", value |-> filterString(filters)],
         [call |-> "drawImage", x |-> 0, y |-> 0] >>
      \o ForEachRisk(risks, canvas)
      \o << [call |-> "filter", value |-> FilterNone],
            [call |-> "toDataURL", type |-> "image/png",
             width |-> canvas.width, height |-> canvas.height],
            [call |-> "click", download |-> "safe-screenshot.png"],
            [call |-> "onSuccess"] >>

\* an onload whose canvas has the size of the surface on the screen
ImgOnLoadDisplaySize(img, risks, filters, ctx) ==
  LET canvas == [width |-> rect.width, height |-> rect.height]
  IN  IF ~ctx THEN << [call |-> "getContext", returned |-> FALSE] >>
      ELSE << [call |-> "getContext", returned |-> TRUE],
              [call |-> "filter", value |-> filterString(filters)],
              [call |-> "drawImage", x |-> 0, y |-> 0],
              [call |-> "filter", value |-> FilterNone] >>
           \o ForEachRisk(risks, canvas)
           \o << [call |-> "toDataURL", type |-> "image/png",
                  width |-> canvas.width, height |-> canvas.height],
                 [call |-> "click", download |-> "safe-screenshot.png"],
                 [call |-> "onSuccess"] >>

\* img.onload: the calls it makes, in order; ctx tells whether getContext
\* returned a context (the time stamp of the file name is left out)
ImgOnLoad(img, risks, filters, ctx) ==
  LET canvas == [width |-> img.naturalWidth, height |-> img.naturalHeight]
  IN  IF ~ctx THEN << [call |-> "getContext", returned |-> FALSE] >>
      ELSE << [call |-> "getContext", returned |-> TRUE],
              [call |-> "filter", value |-> filterString(filters)],
              [call |-> "drawImage", x |-> 0, y |-> 0],
              [call |-> "filter", value |-> FilterNone] >>
           \o ForEachRisk(risks, canvas)
           \o << [call |-> "toDataURL", type |-> "image/png",
                  width |-> canvas.width, height |-> canvas.height],
                 [call |-> "click", download |-> "safe-screenshot.png"],
                 [call |-> "onSuccess"] >>

\* handleDownload and downloadRedactedImage up to img.onload
HandleDownload ==
  /\ Mounted(state)
  /\ ~ButtonDisabled(isProcessing)
  /\ isProcessing' = TRUE
  /\ image' = [src |-> state.imageUrl, risks |-> Risks(state),
               filters |-> imageFilters]
  /\ inputs < MaxInputs
  /\ inputs' = inputs + 1
  /\ last' = Event("download")
  /\ UNCHANGED <<state, selectedId, interaction, readers, inflight, now,
                 images, response, capture, render, geometry>>

\* img.onload fires: the image has been decoded
ImageLoad(ctx) ==
  /\ image # Null
  /\ LET img == [src |-> image.src, naturalWidth |-> naturalSize.width,
                 naturalHeight |-> naturalSize.height]
     IN  last' = [op |-> "imageLoad", replaced |-> Idle,
                  risks |-> image.risks,
                  calls |-> ImgOnLoad(img, image.risks, image.filters, ctx)]
  /\ isProcessing' = IF ctx THEN FALSE ELSE isProcessing
  /\ image' = Null
  /\ UNCHANGED <<state, selectedId, interaction, readers, inflight, now,
                 images, inputs, response, capture, render,
                 geometry>>

\* the image cannot be decoded: no onerror handler is installed
ImageError ==
  /\ image # Null
  /\ image' = Null
  /\ last' = Event("imageError")
  /\ UNCHANGED <<state, selectedId, interaction, readers, inflight, now,
                 images, inputs, isProcessing, response, capture,
                 render, geometry>>

\* the positions of the store
Indices == 1..Len(Risks(state))

Next ==
  \/ \E isImage \in BOOLEAN : HandleFileUpload(isImage)
  \/ ReaderLoadEnd
  \/ \E img \in 1..MaxImages, data \in Detections, t \in Clock :
       AnalysisResolve(img, data, t)
  \/ \E img \in 1..MaxImages : AnalysisReject(img)
  \/ HandleReset
  \/ \E e \in Pointers : HandlePointerDown(e)
  \/ \E e \in Pointers, i \in Indices : HandleBoxDown(e, i)
  \/ \E i \in Indices, handle \in Handles : HandleHandleDown(i, handle)
  \/ \E e \in Pointers : HandlePointerMove(e)
  \/ \E t \in Clock : HandlePointerUp(t)
  \/ \E i \in Indices : HandleToggleRedaction(i)
  \/ \E i \in Indices : HandleToggleVisibility(i)
  \/ \E i \in Indices, text \in Texts : HandleUpdateRiskText(i, text)
  \/ \E i \in Indices, type \in Types : HandleUpdateRiskDetails(i, type)
  \/ \E i \in Indices : HandleDeleteRisk(i)

\* a session of uploads, analyses and edits; the export is in ExportSpec
Spec == Init /\ [][Next]_vars

(* ------------------- the export of a reviewed screenshot --------------- *)
\* The export reads the App state when the button is clicked and writes
\* isProcessing only, which no other handler reads: it is checked on its
\* own, started in the review screens a session leads to.

\* risks whose box_2d is missing or has more than four elements
RawMissing ==
  [type |-> "Metadata", description |-> "found", riskLevel |-> "HIGH"]
RawLong ==
  [type |-> "Token", description |-> "found", riskLevel |-> "HIGH",
   box_2d |-> <<100, 100, 115, 300, 400>>]

\* two risks whose boxes are 50 and 40 pixels high on the canvas
RawBanner ==
  [type |-> "Address", description |-> "found", riskLevel |-> "HIGH",
   box_2d |-> <<100, 100, 200, 300>>]
RawLine ==
  [type |-> "Phone", description |-> "found", riskLevel |-> "HIGH",
   box_2d |-> <<300, 100, 380, 300>>]

\* data.risks of the responses of the detection service
ExportDetections ==
  Detections \cup { <<RawMissing, RawLong>>, <<RawBanner, RawLine>> }

\* a box the user has drawn across the first box of RawHigh
DrawnBoxes == { [xmin |-> 200, xmax |-> 400, ymin |-> 110, ymax |-> 200] }

\* what the user has done to one region in the review screen: toggled its
\* redaction, toggled its visibility, typed an overlay label
Edits == [redaction : BOOLEAN, visibility : BOOLEAN, text : {Null} \cup Texts]

\* the state after the edits e of the region id
EditRisk(s, id, e) ==
  LET a == IF e.redaction THEN ToggleRedaction(s, id) ELSE s
      b == IF e.visibility THEN ToggleVisibility(a, id) ELSE a
  IN  IF e.text # Null THEN UpdateRiskText(b, id, e.text) ELSE b

\* the state after the edits of the regions i, i + 1, ...
RECURSIVE EditRisks(_, _, _)
EditRisks(s, edits, i) ==
  IF i > Len(Risks(s)) THEN s
  ELSE EditRisks(EditRisk(s, Risks(s)[i].id, edits[i]), edits, i + 1)

\* a review screen: one image has been analysed, its regions have been
\* edited and a box may have been drawn; no interaction is in progress
ExportInit ==
  \E data \in ExportDetections, box \in {Null} \cup DrawnBoxes :
    \E edits \in [1..Len(data) -> Edits] :
      LET loaded == [currentStep |-> "UPLOAD", imageUrl |-> [img |-> 1],
                     imageBase64 |-> [img |-> 1], analysisResult |-> Null,
                     error |-> Null]
          seeded == InstallResult(TriggerAnalysis(loaded),
                                  AnalyzeResult(data, 0))
          edited == EditRisks(seeded, edits, 1)
      IN  /\ state = IF box = Null THEN edited ELSE AddRisk(edited, box, 1)
          /\ now = IF box = Null THEN 0 ELSE 1
          /\ response = data
  /\ selectedId = Null
  /\ interaction = Idle
  /\ readers = 0
  /\ inflight = {}
  /\ images = 1
  /\ inputs = 0
  /\ last = [op |-> "init", replaced |-> Idle]
  /\ isProcessing = FALSE
  /\ image = Null
  /\ activeStream = Null
  /\ live = {}
  /\ requests = {}
  /\ streams = 0
  /\ concurrent = FALSE
  /\ closure = Null
  /\ geometry = Null

ExportNext ==
  \/ HandleDownload
  \/ \E ctx \in BOOLEAN : ImageLoad(ctx)
  \/ ImageError
  \/ \E i \in Indices : HandleToggleRedaction(i)
  \/ \E i \in Indices : HandleToggleVisibility(i)

ExportSpec == ExportInit /\ [][ExportNext]_vars

\* the browser ends every load it has started: an image whose src has been
\* set gets its load event or its error event
ImageSettles == (\E ctx \in BOOLEAN : ImageLoad(ctx)) \/ ImageError

\* the export with the loads of the browser coming to their end
ExportLiveSpec == ExportInit /\ [][ExportNext]_vars /\ WF_vars(ImageSettles)

(* --------------------- the capture of a screenshot --------------------- *)
\* the images of a session: the files and the snapshots
Images == 1..(MaxImages + MaxStreams)

\* data.risks of the responses: the capture does not depend on them
CaptureDetection == <<RawHigh, RawSmall>>

CaptureNext ==
  \/ \E isImage \in BOOLEAN : HandleFileUpload(isImage)
  \/ ReaderLoadEnd
  \/ \E img \in Images : AnalysisResolve(img, CaptureDetection, now)
  \/ \E img \in Images : AnalysisReject(img)
  \/ HandleReset
  \/ \E kind \in {"camera", "screen"} : HandleStartCapture(kind)
  \/ \E request \in requests : MediaResolve(request)
  \/ \E request \in requests : MediaReject(request)
  \/ HandleStopCapture
  \/ \E stream \in live : TrackEnded(stream)
  \/ \E ctx \in BOOLEAN : HandleCaptureImage(ctx)

\* a session of uploads, captures and analyses; the review screen is not
\* edited
CaptureSpec == Init /\ [][CaptureNext]_vars

(* ------------------ the review screen under createRoot ----------------- *)
\* the update of a pointer-move is rendered: the handlers are created anew
Render ==
  /\ closure # Null
  /\ closure' = Null
  /\ UNCHANGED <<state, selectedId, interaction, readers, inflight, now,
                 images, inputs, last, export, response, capture, concurrent,
                 geometry>>

\* a review screen: one image has been analysed and a box may have been
\* drawn; the root was created with createRoot
ConcurrentInit ==
  /\ \E data \in Detections, box \in {Null} \cup DrawnBoxes :
       LET loaded == [currentStep |-> "UPLOAD", imageUrl |-> [img |-> 1],
                      imageBase64 |-> [img |-> 1], analysisResult |-> Null,
                      error |-> Null]
           seeded == InstallResult(TriggerAnalysis(loaded),
                                   AnalyzeResult(data, 0))
       IN  /\ state = IF box = Null THEN seeded ELSE AddRisk(seeded, box, 1)
           /\ now = IF box = Null THEN 0 ELSE 1
           /\ response = data
  /\ selectedId = Null
  /\ interaction = Idle
  /\ readers = 0
  /\ inflight = {}
  /\ images = 1
  /\ inputs = 0
  /\ last = [op |-> "init", replaced |-> Idle]
  /\ isProcessing = FALSE
  /\ image = Null
  /\ activeStream = Null
  /\ live = {}
  /\ requests = {}
  /\ streams = 0
  /\ concurrent = TRUE
  /\ closure = Null
  /\ geometry = Null

ConcurrentNext ==
  \/ Render
  \/ \E e \in Pointers : HandlePointerDown(e)
  \/ \E e \in Pointers, i \in Indices : HandleBoxDown(e, i)
  \/ \E i \in Indices, handle \in Handles : HandleHandleDown(i, handle)
  \/ \E e \in Pointers : HandlePointerMove(e)
  \/ \E t \in Clock : HandlePointerUp(t)
  \/ \E i \in Indices : HandleToggleRedaction(i)
  \/ \E i \in Indices : HandleToggleVisibility(i)
  \/ \E i \in Indices : HandleDeleteRisk(i)

\* the edits of a review screen whose pointer-moves are rendered later
ConcurrentSpec == ConcurrentInit /\ [][ConcurrentNext]_vars

(* ------------- normalized coordinates and surface pixels --------------- *)
\* the normalized coordinates of the corners of the boxes that are mapped
Coordinates == {0, 1, 333, 500, 1000}

\* ordered boxes in the normalized space
Boxes ==
  { b \in [xmin : Coordinates, xmax : Coordinates,
           ymin : Coordinates, ymax : Coordinates] :
      b.xmin <= b.xmax /\ b.ymin <= b.ymax }

\* getBoundingClientRect() of surfaces of several sizes, and the canvas of
\* the export at the origin, in thousandths of a pixel
Surfaces ==
  { [left |-> 10000, top |-> 20000, width |-> 200000, height |-> 100000],
    [left |-> 0, top |-> 0, width |-> 1000000, height |-> 500000],
    [left |-> 5000, top |-> 7000, width |-> 333000, height |-> 77000],
    [left |-> 0, top |-> 0, width |-> 1000, height |-> 1000] }

\* a normalized point without the offset of the surface
NormalizedPointOnPage(e, r) ==
  [x |-> Max(0, Min(1000, (e.clientX * 1000) \div r.width)),
   y |-> Max(0, Min(1000, (e.clientY * 1000) \div r.height))]

\* getNormalizedPoint on a surface whose bounding rectangle is r
NormalizedPointOn(e, r) ==
  LET x == e.clientX - r.left
      y == e.clientY - r.top
  IN  [x |-> Max(0, Min(1000, (x * 1000) \div r.width)),
       y |-> Max(0, Min(1000, (y * 1000) \div r.height))]

\* the pixels of the corners of a box on a surface: the overlay's left /
\* top / width / height in percent of the surface, and the compositor's
\* (xmin / 1000) * width, (ymin / 1000) * height with the scaled extent
BoxPixels(box, r) ==
  LET x == (box.xmin * r.width) \div 1000
      y == (box.ymin * r.height) \div 1000
      w == ((box.xmax - box.xmin) * r.width) \div 1000
      h == ((box.ymax - box.ymin) * r.height) \div 1000
  IN  [min |-> [clientX |-> r.left + x, clientY |-> r.top + y],
       max |-> [clientX |-> r.left + x + w, clientY |-> r.top + y + h]]

\* a box and a surface have been chosen
GeometryInit ==
  /\ \E box \in Boxes, surface \in Surfaces :
       geometry = [box |-> box, surface |-> surface, pixels |-> Null,
                   points |-> Null]
  /\ state = [currentStep |-> "UPLOAD", imageUrl |-> Null,
              imageBase64 |-> Null, analysisResult |-> Null, error |-> Null]
  /\ selectedId = Null
  /\ interaction = Idle
  /\ readers = 0
  /\ inflight = {}
  /\ now = 0
  /\ images = 0
  /\ inputs = 0
  /\ last = [op |-> "init", replaced |-> Idle]
  /\ isProcessing = FALSE
  /\ image = Null
  /\ response = Null
  /\ activeStream = Null
  /\ live = {}
  /\ requests = {}
  /\ streams = 0
  /\ concurrent = FALSE
  /\ closure = Null

\* the corners of the box are mapped to the pixels of the surface
MapToPixels ==
  /\ geometry.pixels = Null
  /\ geometry' = [geometry EXCEPT
                    !.pixels = BoxPixels(geometry.box, geometry.surface)]
  /\ UNCHANGED <<state, selectedId, interaction, readers, inflight, now,
                 images, inputs, last, export, response, capture, render>>

\* pointer events at the two pixels are converted to normalized points
MapToPoints ==
  /\ geometry.pixels # Null
  /\ geometry.points = Null
  /\ geometry' = [geometry EXCEPT !.points =
       [min |-> NormalizedPointOn(geometry.pixels.min, geometry.surface),
        max |-> NormalizedPointOn(geometry.pixels.max, geometry.surface)]]
  /\ UNCHANGED <<state, selectedId, interaction, readers, inflight, now,
                 images, inputs, last, export, response, capture, render>>

GeometryNext == MapToPixels \/ MapToPoints

\* a box is mapped to the pixels of a surface and back
GeometrySpec == GeometryInit /\ [][GeometryNext]_vars

(* ------------------------------ properties ----------------------------- *)
\* the regions of the store that carry the id of the interaction in progress
Edited == { i \in 1..Len(Risks(state)) : Risks(state)[i].id = interaction.id }

\* the last event was a pointer-move handled in the MOVING state
MoveHandled == last.op = "pointerMove" /\ interaction.type = "MOVING"

\* the last event was a pointer-move handled in the RESIZING state
ResizeHandled(handle) ==
  /\ last.op = "pointerMove"
  /\ interaction.type = "RESIZING"
  /\ interaction.handle = handle

Width(box) == box.xmax - box.xmin
Height(box) == box.ymax - box.ymin

\* C1: after a pointer-move handled while MOVING or RESIZING, the box of the
\* edited region is at least 10 units wide and 10 units high
C1_MinimumExtentAfterEdit ==
  (last.op = "pointerMove" /\ interaction.type \in {"MOVING", "RESIZING"}) =>
    \A i \in Edited :
      /\ Width(Risks(state)[i].box_2d) >= 10
      /\ Height(Risks(state)[i].box_2d) >= 10

\* C2: every region of the store that has a box has xmin < xmax and
\* ymin < ymax
C2_BoxOrdered ==
  \A i \in 1..Len(Risks(state)) :
    LET box == Risks(state)[i].box_2d
    IN  box # Null => (box.xmin < box.xmax /\ box.ymin < box.ymax)

\* C3: the four scalars of every stored box lie in [0, 1000]
C3_BoxInBounds ==
  \A i \in 1..Len(Risks(state)) :
    LET box == Risks(state)[i].box_2d
    IN  box # Null =>
          \A v \in {box.xmin, box.xmax, box.ymin, box.ymax} :
            0 <= v /\ v <= 1000

\* C4: a pointer-move handled while MOVING writes a box as wide and as high
\* as the snapshot taken at pointer-down
C4_MovePreservesSize ==
  MoveHandled =>
    \A i \in Edited :
      /\ Width(Risks(state)[i].box_2d) = Width(interaction.initialBox)
      /\ Height(Risks(state)[i].box_2d) = Height(interaction.initialBox)

\* a region has been moved away from its snapshot
C4_Witness ==
  /\ MoveHandled
  /\ \E i \in Edited :
       /\ Risks(state)[i].box_2d.xmin # interaction.initialBox.xmin
       /\ Risks(state)[i].box_2d.ymin # interaction.initialBox.ymin

\* C5: a pointer-move handled while RESIZING with handle br writes a box
\* whose xmin and ymin are the snapshot's
C5_BottomRightKeepsMin ==
  ResizeHandled("br") =>
    \A i \in Edited :
      /\ Risks(state)[i].box_2d.xmin = interaction.initialBox.xmin
      /\ Risks(state)[i].box_2d.ymin = interaction.initialBox.ymin

\* the bottom-right corner has been dragged past the top-left one
C5_Witness ==
  /\ ResizeHandled("br")
  /\ Width(interaction.initialBox) > 10
  /\ Height(interaction.initialBox) > 10
  /\ \E i \in Edited :
       /\ Width(Risks(state)[i].box_2d) = 10
       /\ Height(Risks(state)[i].box_2d) = 10

\* C6: a pointer-move handled while RESIZING with handle tl writes a box
\* whose xmax and ymax are the snapshot's
C6_TopLeftKeepsMax ==
  ResizeHandled("tl") =>
    \A i \in Edited :
      /\ Risks(state)[i].box_2d.xmax = interaction.initialBox.xmax
      /\ Risks(state)[i].box_2d.ymax = interaction.initialBox.ymax

\* C6 as amended: with handle tl the written xmax is the snapshot's xmax
\* unless the written xmin is above xmax - 10, and then it is xmin + 10;
\* likewise for ymax and ymin
C6_TopLeftKeepsMaxUnlessClamped ==
  ResizeHandled("tl") =>
    \A i \in Edited :
      LET box == Risks(state)[i].box_2d
      IN  /\ box.xmax = Max(interaction.initialBox.xmax, box.xmin + 10)
          /\ box.ymax = Max(interaction.initialBox.ymax, box.ymin + 10)

\* the top edge has been dragged below the bottom edge of a box that had
\* the minimum extent, and the bottom edge has followed it
C6_Witness ==
  /\ ResizeHandled("tl")
  /\ Height(interaction.initialBox) >= 10
  /\ \E i \in Edited :
       /\ Risks(state)[i].box_2d.ymin > interaction.initialBox.ymax
       /\ Risks(state)[i].box_2d.ymax = Risks(state)[i].box_2d.ymin + 10

Abs(a) == IF a < 0 THEN 0 - a ELSE a

\* the box of a drawing is too small in one dimension
TooSmall(inter) ==
  \/ Abs(inter.currentX - inter.startX) <= 10
  \/ Abs(inter.currentY - inter.startY) <= 10

\* C7: no step of a draw gesture whose box is at most 10 units wide or at
\* most 10 units high changes the store
C7_SmallDrawAddsNothing ==
  [][ (interaction.type = "DRAWING" /\
       \/ last'.op = "pointerMove"
       \/ last'.op = "pointerUp" /\ TooSmall(interaction))
      => state' = state ]_vars

\* a drawing that was 10 units wide has been released
C7_Witness ==
  /\ last.op = "pointerUp"
  /\ last.replaced.type = "DRAWING"
  /\ Abs(last.replaced.currentX - last.replaced.startX) = 10
  /\ Abs(last.replaced.currentY - last.replaced.startY) > 10
  /\ interaction = Idle

\* C8: a pointer-up in the DRAWING state whose box is more than 10 units wide
\* and high appends one region with that box, severity HIGH, redacted, not
\* suppressed, labelled "Custom Risk", and the interaction becomes IDLE
C8_DrawAppendsRegion ==
  [][ (interaction.type = "DRAWING" /\ last'.op = "pointerUp" /\
       ~TooSmall(interaction))
      => /\ interaction' = Idle
         /\ Len(Risks(state')) = Len(Risks(state)) + 1
         /\ SubSeq(Risks(state'), 1, Len(Risks(state))) = Risks(state)
         /\ LET r == Risks(state')[Len(Risks(state'))]
            IN  /\ r.box_2d.xmin = Min(interaction.startX, interaction.currentX)
                /\ r.box_2d.xmax = Max(interaction.startX, interaction.currentX)
                /\ r.box_2d.ymin = Min(interaction.startY, interaction.currentY)
                /\ r.box_2d.ymax = Max(interaction.startY, interaction.currentY)
                /\ r.riskLevel = "HIGH"
                /\ r.isRedacted
                /\ ~r.isHidden
                /\ r.type = "Custom Risk" ]_vars

\* a drawing from right to left and from top to bottom has been released
\* onto a store that held a region already
C8_Witness ==
  /\ last.op = "pointerUp"
  /\ last.replaced.type = "DRAWING"
  /\ last.replaced.currentX < last.replaced.startX - 10
  /\ last.replaced.currentY > last.replaced.startY + 10
  /\ Len(Risks(state)) >= 2
  /\ Risks(state)[Len(Risks(state))].id.kind = "custom"

\* the region of the interaction in progress is not in the store
EditedIsGone ==
  /\ interaction.type \in {"MOVING", "RESIZING"}
  /\ \A i \in 1..Len(Risks(state)) : Risks(state)[i].id # interaction.id

\* C9: an update for an id that is not in the store leaves the store as it
\* was: the pointer-move of an interaction whose region is gone, and the
\* text, details and delete operations on that id
C9_UpdateOfAbsentIdIsNoOp ==
  [][ EditedIsGone =>
        /\ last'.op = "pointerMove" => state' = state
        /\ \A e \in Pointers :
             /\ UpdateRisk(state, interaction.id, MovedBox(interaction, e)) = state
        /\ UpdateRiskText(state, interaction.id, [value |-> "ID"]) = state
        /\ UpdateRiskDetails(state, interaction.id, "Key", "found") = state
        /\ DeleteRisk(state, interaction.id) = state ]_vars

\* a pointer-move arrived for a region that is no longer in a store that
\* holds other regions
C9_Witness ==
  /\ last.op = "pointerMove"
  /\ EditedIsGone
  /\ Len(Risks(state)) > 0

\* C10: when an analysis completes after the store has been seeded and
\* edited, the store is exactly the ingestion of one detection result
C10_SeedReplacesStore ==
  [][ last'.op = "analysisResolve" =>
        \E data \in Detections, t \in Times :
          state'.analysisResult = AnalyzeResult(data, t) ]_vars

\* a second analysis completed while a region of the first one was selected
\* in the review screen
C10_Witness ==
  /\ last.op = "analysisResolve"
  /\ inputs > 0
  /\ selectedId # Null
  /\ Len(Risks(state)) > 0
  /\ \A i \in 1..Len(Risks(state)) : Risks(state)[i].id.kind = "risk"

\* C11: no two regions of the store have the same id, whatever the clock
\* values read when they were created
C11_UniqueIds ==
  \A i, j \in 1..Len(Risks(state)) :
    i # j => Risks(state)[i].id # Risks(state)[j].id

\* C12: the selected id is empty or the id of a region of the store, also
\* after the selected region has been removed
C12_SelectionInStore ==
  \/ selectedId = Null
  \/ \E i \in 1..Len(Risks(state)) : Risks(state)[i].id = selectedId

\* the last event was a pointer-down on the surface, an overlay or a handle
PointerDownOps == {"pointerDown", "boxDown", "handleDown"}

\* C13: a pointer-down that arrives while an interaction is in progress is
\* ignored, or the interaction is released first as a pointer-up would have
\* released it: a drawing more than 10 units wide and high is added
C13_PointerDownReleasesOrIgnores ==
  [][ (interaction.type # "IDLE" /\ last'.op \in PointerDownOps)
      => \/ /\ interaction' = interaction
            /\ selectedId' = selectedId
            /\ state' = state
         \/ IF interaction.type = "DRAWING" /\ ~TooSmall(interaction)
            THEN \E t \in Times :
                   state' = AddRisk(state, DrawnBox(interaction), t)
            ELSE state' = state ]_vars

\* C14: at most one call of the detection service is in flight
C14_OneCallInFlight == Cardinality(inflight) <= 1

\* C15: the result of an analysis of an image that is no longer the source
\* image is not installed
C15_SupersededNeverInstalled ==
  [][ last'.op = "analysisResolve"
      => \A img \in inflight \ inflight' :
           state.imageUrl # [img |-> img]
             => state'.analysisResult = state.analysisResult ]_vars

\* the calls of the last event, a run of img.onload, that have this name
Calls(name) == { k \in 1..Len(last.calls) : last.calls[k].call = name }

\* the last event was a run of img.onload in which getContext returned null
ContextRefused ==
  /\ last.op = "imageLoad"
  /\ \E k \in Calls("getContext") : ~last.calls[k].returned

\* the last event was a run of img.onload that got its context
ContextAcquired ==
  /\ last.op = "imageLoad"
  /\ \E k \in Calls("getContext") : last.calls[k].returned

\* C16: when getContext returns no context or the image cannot be loaded,
\* no file is produced and an error is reported to the user
C16_ExportFailureReported ==
  /\ last.op = "imageError" => state.error # Null
  /\ ContextRefused => (Calls("click") = {} /\ state.error # Null)

\* C17: after the detection call has failed the step is UPLOAD, an error
\* message is recorded, the store is empty and no analysis has been started
C17_FailureReturnsToUpload ==
  last.op = "analysisReject" =>
    /\ state.currentStep = "UPLOAD"
    /\ state.error # Null
    /\ state.analysisResult = Null

IsFillRect(c) == c.call = "fillRect"

\* a region that is redacted and has a box
RedactedBox(r) == r.isRedacted /\ r.box_2d # Null

\* C18: the fills of an export are, in store order, the boxes of the regions
\* that are redacted and have a box, each in opaque black at the pixels of
\* its box; no other region is filled
C18_FillsAreRedactedInStoreOrder ==
  ContextAcquired =>
    LET fills == SelectSeq(last.calls, IsFillRect)
        boxes == SelectSeq(last.risks, RedactedBox)
    IN  /\ Len(fills) = Len(boxes)
        /\ \A k \in 1..Len(fills) :
             LET box == boxes[k].box_2d
             IN  /\ fills[k].fillStyle = "#000000"
                 /\ fills[k].x = box.xmin * naturalSize.width
                 /\ fills[k].y = box.ymin * naturalSize.height
                 /\ fills[k].w = (box.xmax - box.xmin) * naturalSize.width
                 /\ fills[k].h = (box.ymax - box.ymin) * naturalSize.height

\* an export of three regions with boxes: the first and the third are
\* redacted and overlap, one of them is hidden, the second is not redacted
C18_Witness ==
  /\ ContextAcquired
  /\ Len(last.risks) = 3
  /\ \A i \in 1..3 : last.risks[i].box_2d # Null
  /\ last.risks[1].isRedacted /\ ~last.risks[2].isRedacted
  /\ last.risks[3].isRedacted
  /\ last.risks[1].isHidden
  /\ last.risks[3].box_2d.xmin < last.risks[1].box_2d.xmax
  /\ last.risks[3].box_2d.ymin < last.risks[1].box_2d.ymax
  /\ Cardinality(Calls("fillRect")) = 2

\* C19: in one run of img.onload the compound filter is set, then the image
\* is drawn, then the filter is cleared, then the fills and labels are
\* drawn, then the canvas is encoded; the filter is not set again
C19_FilterClearedBeforeFills ==
  ContextAcquired =>
    \E i, j, k, e \in 1..Len(last.calls) :
      /\ i < j /\ j < k /\ k < e
      /\ Calls("filter") = {i, k}
      /\ last.calls[i].value = filterString(imageFilters)
      /\ last.calls[k].value = FilterNone
      /\ Calls("drawImage") = {j}
      /\ Calls("toDataURL") = {e}
      /\ \A m \in Calls("fillRect") \cup Calls("fillText") : k < m /\ m < e

\* an export that drew two fills and a label
C19_Witness ==
  /\ ContextAcquired
  /\ Cardinality(Calls("fillRect")) >= 2
  /\ Calls("fillText") # {}

\* box_2d of a risk of the response is an array of exactly four integers
FourIntegers(raw) ==
  /\ "box_2d" \in DOMAIN raw
  /\ Len(raw.box_2d) = 4
  /\ \A k \in 1..4 : raw.box_2d[k] \in Int

\* the risk of the response a seeded region was made from
RawOf(r) == response[r.id.index + 1]

\* a region that is redacted and drawn by the user or seeded from a risk
\* with four integers
RedactedRegion(r) ==
  r.isRedacted /\ (r.id.kind = "custom" \/ FourIntegers(RawOf(r)))

C21_StreamReleasedOutsideCapture ==
  state.currentStep # "CAPTURE" => activeStream = Null /\ live = {}

\* C22: when the permission for the camera or for the screen has been
\* refused, an error message is recorded and the app is in the UPLOAD step
C22_DeniedIsReported ==
  last.op = "mediaReject" =>
    state.error # Null /\ state.currentStep = "UPLOAD"

\* C23: selecting a file that is not an image records an error and changes
\* nothing else: the step, the source image, the region store, the viewer
\* and the capture are as before, and no read and no analysis is started
C23_InvalidFileOnlyRecordsError ==
  [][ (last'.op = "fileUpload" /\ ~last'.isImage) =>
        /\ state'.error # Null
        /\ state'.currentStep = state.currentStep
        /\ state'.imageUrl = state.imageUrl
        /\ state'.imageBase64 = state.imageBase64
        /\ state'.analysisResult = state.analysisResult
        /\ UNCHANGED <<selectedId, interaction, readers, inflight, images,
                       export, capture>> ]_vars

\* a file that is not an image has been selected while the store holds the
\* regions of an earlier analysis
C23_Witness ==
  /\ last.op = "fileUpload"
  /\ ~last.isImage
  /\ state.error = [message |-> "Please upload a valid image file."]
  /\ Risks(state) # <<>>

\* C24: a step that replaces the source image (a file has been read, a
\* snapshot has been taken, the session has been reset) leaves the store
\* empty, and a result that is installed afterwards is the result of the
\* source image: no region of an earlier image is shown with the new image
C24_NewImageClearsStore ==
  [][ /\ state'.imageUrl # state.imageUrl => state'.analysisResult = Null
      /\ last'.op = "analysisResolve" =>
            \E img \in inflight \ inflight' : state'.imageUrl = [img |-> img]
    ]_vars

(* ------------------------------ the export ----------------------------- *)
\* a region that is redacted, has a box and has a non-empty overlay text
Labelled(r) ==
  /\ RedactedBox(r)
  /\ r.customText # Null
  /\ r.customText.value # ""

\* max(10, min(h / 2, 24)) pixels for a fill of h thousandths of a pixel,
\* in thousandths of a pixel
LabelFont(h) ==
  IF h < 20000 THEN 10000 ELSE IF h > 48000 THEN 24000 ELSE h \div 2

\* C25: the labels of an export are those of the redacted regions with a
\* box and a non-empty overlay text, each drawn right after the fill of its
\* region with the font size max(10, min(h / 2, 24)) for a fill h pixels
\* high; a region whose overlay text is empty or absent gets no label
C25_LabelFontIsClampedHalfHeight ==
  ContextAcquired =>
    /\ Cardinality(Calls("fillText")) = Len(SelectSeq(last.risks, Labelled))
    /\ \A k \in Calls("fillText") :
         /\ k > 1
         /\ last.calls[k - 1].call = "fillRect"
         /\ last.calls[k].font = LabelFont(last.calls[k - 1].h)
         /\ last.calls[k].text # ""

\* an export with a label of 20 pixels on a fill 40 pixels high, a redacted
\* region whose overlay text is empty and one whose overlay text is absent
C25_Witness ==
  /\ ContextAcquired
  /\ \E k \in Calls("fillText") :
       last.calls[k - 1].h = 40000 /\ last.calls[k].font = 20000
  /\ \E i, j \in 1..Len(last.risks) :
       /\ RedactedBox(last.risks[i])
       /\ last.risks[i].customText = [value |-> ""]
       /\ RedactedBox(last.risks[j])
       /\ last.risks[j].customText = Null
  /\ Cardinality(Calls("fillText")) = 1

\* the canvas that is encoded
Encoded == last.calls[CHOOSE k \in Calls("toDataURL") : TRUE]

\* C26: the canvas of an export has the natural size W x H of the source
\* image, and the fill of a redacted region with the box (xmin, ymin, xmax,
\* ymax) covers the pixels from xmin * W / 1000 to xmax * W / 1000 and from
\* ymin * H / 1000 to ymax * H / 1000; on a 1000 x 500 image the box
\* (100, 100, 300, 200) is filled from 100 to 300 and from 50 to 100
C26_FillIsBoxAtNativeSize ==
  ContextAcquired =>
    LET fills == SelectSeq(last.calls, IsFillRect)
        boxes == SelectSeq(last.risks, RedactedBox)
        W == 1000
        H == 500
    IN  /\ Encoded.width = W /\ Encoded.height = H
        /\ Len(fills) = Len(boxes)
        /\ \A k \in 1..Len(fills) :
             LET box == boxes[k].box_2d
                 left == fills[k].x
                 right == fills[k].x + fills[k].w
                 top == fills[k].y
                 bottom == fills[k].y + fills[k].h
             IN  /\ left = box.xmin * W /\ right = box.xmax * W
                 /\ top = box.ymin * H /\ bottom = box.ymax * H
                 /\ box = [xmin |-> 100, ymin |-> 100, xmax |-> 300,
                           ymax |-> 200]
                      => /\ left = 100000 /\ right = 300000
                         /\ top = 50000 /\ bottom = 100000

\* an export of a 1000 x 500 image with the redacted box (100, 100, 300, 200)
C26_Witness ==
  /\ ContextAcquired
  /\ Encoded.width = 1000 /\ Encoded.height = 500
  /\ \E i \in 1..Len(last.risks) :
       /\ RedactedBox(last.risks[i])
       /\ last.risks[i].box_2d =
            [xmin |-> 100, ymin |-> 100, xmax |-> 300, ymax |-> 200]
  /\ \E k \in Calls("fillRect") :
       /\ last.calls[k].x = 100000 /\ last.calls[k].w = 200000
       /\ last.calls[k].y = 50000 /\ last.calls[k].h = 50000

(* ------------------------ coordinate conversions ----------------------- *)
\* C27: the corners of an ordered box in [0, 1000], mapped to the pixels of
\* a surface of any non-zero size and converted back as pointer positions,
\* are the corners of the box
C27_PixelsRoundTrip ==
  (geometry # Null /\ geometry.points # Null) =>
    /\ geometry.points.min = [x |-> geometry.box.xmin, y |-> geometry.box.ymin]
    /\ geometry.points.max = [x |-> geometry.box.xmax, y |-> geometry.box.ymax]

\* a box with four different coordinates has made the round trip on a
\* surface that is offset in the page and whose size does not divide 1000
C27_Witness ==
  /\ geometry # Null
  /\ geometry.points # Null
  /\ geometry.box = [xmin |-> 1, xmax |-> 333, ymin |-> 500, ymax |-> 1000]
  /\ geometry.surface.width = 333000
  /\ geometry.surface.left > 0
  /\ geometry.pixels.min = [clientX |-> 5333, clientY |-> 45500]

(* ------------------------------ the toggles ---------------------------- *)
\* C28: a toggle flips the named flag of the region with the given id and
\* nothing else: the store has the length and the order it had right before
\* the toggle, and every other region and field has the value it had then,
\* the boxes written by the pointer-moves handled before the toggle included
C28_ToggleFlipsOneFlag ==
  [][ last'.op \in {"toggleRedaction", "toggleVisibility"} =>
        /\ Len(Risks(state')) = Len(Risks(state))
        /\ \A k \in 1..Len(Risks(state)) :
             LET r == Risks(state)[k]
             IN  Risks(state')[k] =
                   IF r.id # last'.id THEN r
                   ELSE IF last'.op = "toggleRedaction"
                        THEN [r EXCEPT !.isRedacted = ~r.isRedacted]
                        ELSE [r EXCEPT !.isHidden = ~r.isHidden] ]_vars

\* the ids of the regions of a store
Ids(s) == { Risks(s)[k].id : k \in 1..Len(Risks(s)) }

\* s is t without some of its elements, in the order of t
RECURSIVE IsSubSeq(_, _)
IsSubSeq(s, t) ==
  IF s = << >> THEN TRUE
  ELSE IF t = << >> THEN FALSE
  ELSE IF Head(s) = Head(t) THEN IsSubSeq(Tail(s), Tail(t))
  ELSE IsSubSeq(s, Tail(t))

\* C29: the visible and the suppressed regions are disjoint, together they
\* are every region of the store, and each list is in store order; a second
\* toggle of the visibility of a region gives back the store as it was
\* before the first one; only a seed or a draw brings an id into the store
C29_VisibilityPartitionsAndInverts ==
  [][ /\ LET visible == visibleRisks(Risks(state'))
             suppressed == hiddenRisks(Risks(state'))
         IN  /\ Len(visible) + Len(suppressed) = Len(Risks(state'))
             /\ \A i \in 1..Len(visible), j \in 1..Len(suppressed) :
                  visible[i] # suppressed[j]
             /\ IsSubSeq(visible, Risks(state'))
             /\ IsSubSeq(suppressed, Risks(state'))
      /\ last'.op = "toggleVisibility" =>
            Risks(ToggleVisibility(state', last'.id)) = Risks(state)
      /\ last'.op \notin {"analysisResolve", "pointerUp"} =>
            Ids(state') \subseteq Ids(state) ]_vars

(* --------------------------- the interactions -------------------------- *)
\* C30: a pointer-up handled in MOVING or RESIZING sets the interaction to
\* IDLE and leaves the store as it is; a pointer-move handled in DRAWING
\* changes the current point of the drawing and nothing else
C30_PointerUpKeepsStore ==
  [][ /\ (last'.op = "pointerUp" /\ interaction.type \in {"MOVING", "RESIZING"})
          => (interaction' = Idle /\ state' = state)
      /\ (last'.op = "pointerMove" /\ interaction.type = "DRAWING")
          => /\ state' = state
             /\ selectedId' = selectedId
             /\ interaction'.type = "DRAWING"
             /\ interaction'.startX = interaction.startX
             /\ interaction'.startY = interaction.startY ]_vars

\* a pointer-up has ended a move or a resize that had changed a box
C30_Witness ==
  /\ last.op = "pointerUp"
  /\ last.replaced.type \in {"MOVING", "RESIZING"}
  /\ interaction = Idle
  /\ \E k \in 1..Len(Risks(state)) :
       LET r == Risks(state)[k]
       IN  /\ r.id.kind = "risk"
           /\ r.box_2d # Null
           /\ r.box_2d.xmin # RawOf(r).box_2d[2]

\* the overlays that are drawn as selected
Selected(s, id) ==
  { k \in 1..Len(Risks(s)) : Rendered(Risks(s)[k]) /\ Risks(s)[k].id = id }

\* C31: from IDLE, a pointer-down on the empty surface starts a drawing
\* whose start point and current point are the clamped normalized position
\* of the pointer and clears the selection; a pointer-down on an overlay
\* starts a move of that region with a snapshot of its box and selects it; a
\* pointer-down on a resize handle starts a resize of the selected region
\* with that handle and keeps the selection; at most one region is selected
C31_PointerDownStartsInteraction ==
  [][ /\ (interaction = Idle /\ last'.op = "pointerDown") =>
            /\ selectedId' = Null
            /\ \E e \in Pointers :
                 LET x == (1000 * (e.clientX - rect.left)) \div rect.width
                     y == (1000 * (e.clientY - rect.top)) \div rect.height
                     cx == IF x < 0 THEN 0 ELSE IF x > 1000 THEN 1000 ELSE x
                     cy == IF y < 0 THEN 0 ELSE IF y > 1000 THEN 1000 ELSE y
                 IN  interaction' = [type |-> "DRAWING", startX |-> cx,
                                     startY |-> cy, currentX |-> cx,
                                     currentY |-> cy]
      /\ (interaction = Idle /\ last'.op = "boxDown") =>
            \E k \in 1..Len(Risks(state)) :
              /\ interaction'.type = "MOVING"
              /\ interaction'.id = Risks(state)[k].id
              /\ interaction'.initialBox = Risks(state)[k].box_2d
              /\ selectedId' = Risks(state)[k].id
      /\ (interaction = Idle /\ last'.op = "handleDown") =>
            /\ interaction'.type = "RESIZING"
            /\ interaction'.handle \in {"tl", "tr", "bl", "br"}
            /\ interaction'.id = selectedId
            /\ selectedId' = selectedId
            /\ \E k \in Selected(state, selectedId) :
                 interaction'.initialBox = Risks(state)[k].box_2d
      /\ Cardinality(Selected(state', selectedId')) <= 1 ]_vars

\* the distance of a pointer position from the pointer-down of the
\* interaction in progress, in normalized units
Dragged(e) ==
  [x |-> (1000 * (e.clientX - interaction.startX)) \div rect.width,
   y |-> (1000 * (e.clientY - interaction.startY)) \div rect.height]

\* C32: the box a pointer-move writes while MOVING or RESIZING is a function
\* of the snapshot taken at pointer-down and of the position of the pointer
\* alone: whatever pointer-moves came before, a moved box is the snapshot
\* shifted by the distance from the pointer-down, and a resized box has the
\* edges of the handle shifted by it, the others as in the snapshot, and
\* xmax and ymax raised to 10 above xmin and ymin
C32_BoxDependsOnSnapshotAndPointer ==
  (last.op = "pointerMove" /\ interaction.type \in {"MOVING", "RESIZING"}) =>
    \A i \in Edited :
      LET box == Risks(state)[i].box_2d
          snap == interaction.initialBox
          d == Dragged(last.e)
          moving == interaction.type = "MOVING"
          left == moving \/ interaction.handle \in {"tl", "bl"}
          right == moving \/ interaction.handle \in {"tr", "br"}
          top == moving \/ interaction.handle \in {"tl", "tr"}
          bottom == moving \/ interaction.handle \in {"bl", "br"}
          xmin == snap.xmin + (IF left THEN d.x ELSE 0)
          xmax == snap.xmax + (IF right THEN d.x ELSE 0)
          ymin == snap.ymin + (IF top THEN d.y ELSE 0)
          ymax == snap.ymax + (IF bottom THEN d.y ELSE 0)
      IN  /\ box.xmin = xmin /\ box.ymin = ymin
          /\ box.xmax = IF moving THEN xmax ELSE Max(xmax, xmin + 10)
          /\ box.ymax = IF moving THEN ymax ELSE Max(ymax, ymin + 10)

\* a pointer-move of a move has brought the pointer away from the
\* pointer-down and the box away from the snapshot
C32_Witness ==
  /\ last.op = "pointerMove"
  /\ interaction.type = "MOVING"
  /\ Dragged(last.e).x # 0
  /\ \E i \in Edited :
       Risks(state)[i].box_2d.xmin = interaction.initialBox.xmin + Dragged(last.e).x

(* ------------------------------ ingestion ------------------------------ *)
\* C33: right after a detection result has been installed, region i of the
\* store is redacted exactly when risk i of the response has the severity
\* HIGH, no region is suppressed, and the id of region i is made of its
\* index and the clock, whatever id the response gave it
C33_SeedRedactsHighOnly ==
  last.op = "analysisResolve" =>
    /\ Len(Risks(state)) = Len(response)
    /\ \A i \in 1..Len(response) :
         LET r == Risks(state)[i]
             severity == response[i].riskLevel
         IN  /\ severity = "HIGH" => r.isRedacted
             /\ severity \in {"MEDIUM", "LOW", "SAFE"} => ~r.isRedacted
             /\ ~r.isHidden
             /\ r.id = [kind |-> "risk", index |-> i - 1, t |-> now]

\* a result with a risk of high severity that carries an id of its own and
\* a risk of medium severity has been installed
C33_Witness ==
  /\ last.op = "analysisResolve"
  /\ \E i, j \in 1..Len(response) :
       /\ response[i].riskLevel = "HIGH" /\ "id" \in DOMAIN response[i]
       /\ Risks(state)[i].isRedacted
       /\ response[j].riskLevel = "MEDIUM"
       /\ ~Risks(state)[j].isRedacted

(* ------------------------- the end of an export ------------------------ *)
\* C34: every export comes to its end: once handleDownload has set the
\* processing flag, the flag is cleared again, whatever the load of the image
\* and the acquisition of the drawing context give
C34_ExportEventuallyCompletes == isProcessing ~> ~isProcessing

\* once the load has ended with the flag set, no step clears the flag:
\* the export button is disabled and nothing else writes isProcessing
C34_FlagStaysSet ==
  [][isProcessing /\ image = Null => isProcessing']_vars

\* every load that has been started comes to its end
C34_LoadSettles == (image # Null) ~> (image = Null)

(* --------------------------- the review screen ------------------------- *)
\* C35: whenever the step is REVIEW, the image and the analysis result are
\* both there, so that the review screen is rendered
C35_ReviewHasImageAndResult ==
  state.currentStep = "REVIEW" =>
    state.imageUrl # Null /\ state.analysisResult # Null

(* ---------------------- suppression and the export --------------------- *)
\* what an export of the risks would paint on the canvas of the image
Painted(risks) ==
  ForEachRisk(risks, [width |-> naturalSize.width,
                      height |-> naturalSize.height])

\* the fill of the box of the region r is among the calls of the last export
FilledIn(r) ==
  \E k \in Calls("fillRect") :
    /\ last.calls[k].x = r.box_2d.xmin * naturalSize.width
    /\ last.calls[k].y = r.box_2d.ymin * naturalSize.height
    /\ last.calls[k].w = (r.box_2d.xmax - r.box_2d.xmin) * naturalSize.width
    /\ last.calls[k].h = (r.box_2d.ymax - r.box_2d.ymin) * naturalSize.height

\* the region r with its suppression flag cleared
Unsuppressed(r) == [r EXCEPT !.isHidden = FALSE]

\* a call that paints: a fill or a label
IsPaint(c) == c.call \in {"fillRect", "fillText"}

\* the last export filled every suppressed region that is redacted and has a
\* box, and painted what it would have painted with no region suppressed
ExportIgnoresSuppression ==
  ContextAcquired =>
    /\ \A i \in 1..Len(last.risks) :
         LET r == last.risks[i]
         IN  r.isHidden /\ r.isRedacted /\ r.box_2d # Null => FilledIn(r)
    /\ SelectSeq(last.calls, IsPaint)
         = Painted([i \in 1..Len(last.risks) |-> Unsuppressed(last.risks[i])])

\* what an export of the store would paint
PaintedNow == Painted(Risks(state))

====
